---- MODULE Spec2Model ----
(***************************************************************************)
(* State-machine model of flask-mysql-app/app.py: the startup schema       *)
(* initializer init_db (a bounded retry loop), the three request handlers  *)
(* home (GET /), submit (POST /submit) and health (GET /health), and the   *)
(* MySQL database they talk to through flask_mysqldb.                      *)
(*                                                                         *)
(* Environment assumptions (the database and the driver are not part of    *)
(* the repository):                                                        *)
(*  - the calls that make a round trip to the server -- acquiring the      *)
(*    connection/cursor, execute, commit -- may raise at any time (the     *)
(*    link is lost); this is the input `fault` of every handler;           *)
(*  - a statement on the table messages raises when the table is missing;  *)
(*  - cur.close() releases a client-side handle whose result set execute   *)
(*    has already buffered: it makes no round trip and does not raise;     *)
(*  - flask_mysqldb opens one connection per application context and       *)
(*    closes it at teardown, so an INSERT whose commit did not succeed is  *)
(*    rolled back; the AUTO_INCREMENT counter is not rolled back;          *)
(*  - CREATE TABLE is DDL: MySQL commits it implicitly when it executes.   *)
(***************************************************************************)
EXTENDS Integers, Sequences, FiniteSets, TLC

VARIABLES
    db,      \* the database: [exists, rows, nextId] of table messages
    pc,      \* where the process is: "init_db", "except", "returned", "serving"
    i,       \* init_db's loop variable (line 19)
    events,  \* what this run of init_db did so far: "ok", "fail", "sleep"
    resp,    \* the outcome of the last handler or initializer attempt
    run      \* how many times the process has been started

vars == <<db, pc, i, events, resp, run>>

\* ------------------------------------------------------------------ bounds

\* Inserts are issued while the AUTO_INCREMENT counter is at most MaxId.
MaxId == 3
\* The process is started at most MaxRuns times against the same database.
MaxRuns == 2

\* ------------------------------------------------------------ program data

\* retries = 5 (line 18)
retries == 5

\* Python's None / SQL NULL / JSON null, and a string value.
None == << >>
Str(s) == <<s>>

\* The request forms sent to POST /submit: the field present, or absent.
Forms ==
    { [new_message |-> "hello"], [new_message |-> "world"], [other |-> "x"] }

\* A variant of FormGet: request.form.get('new_message', ''), an absent
\* field read as the empty string.
FormGetEmptyDefault(form, key) ==
    IF key \in DOMAIN form THEN Str(form[key]) ELSE Str("")

\* request.form.get('new_message') (line 46): None when the field is absent.
FormGet(form, key) ==
    IF key \in DOMAIN form THEN Str(form[key]) ELSE None

\* The values a row's message can hold.
MessageValues == { FormGet(f, "new_message") : f \in Forms }

\* ---------------------------------------------------------------- database

\* The database before the table was ever created.
EmptyDb == [exists |-> FALSE, rows |-> << >>, nextId |-> 1]

\* A variant of CreateTableIfNotExists: DROP TABLE IF EXISTS then CREATE
\* TABLE, which empties an existing table.
CreateTableReplacing(d) == [exists |-> TRUE, rows |-> << >>, nextId |-> 1]

\* CREATE TABLE IF NOT EXISTS messages (id INT AUTO_INCREMENT PRIMARY KEY,
\* message TEXT) (lines 22-27): creates the empty table, or leaves the
\* existing one alone.
CreateTableIfNotExists(d) ==
    IF d.exists THEN d ELSE [exists |-> TRUE, rows |-> << >>, nextId |-> 1]

\* A variant of CreateTableFails: CREATE TABLE without IF NOT EXISTS, which
\* raises when the table is there.
CreateTableFailsIfExists(d) == d.exists

\* Whether CREATE TABLE IF NOT EXISTS raises a statement error: never.
CreateTableFails(d) == FALSE

\* Whether a statement on messages raises: the table is missing (lines 39, 48).
TableStatementFails(d) == ~d.exists

\* SELECT 1 (line 57) needs no table.
SelectOneFails(d) == FALSE

\* SELECT message FROM messages; fetchall() (lines 39-40).
SelectMessages(d) == [k \in 1..Len(d.rows) |-> d.rows[k].message]

\* A variant of InsertMessage: the statement executed twice.
InsertMessageTwice(d, m) ==
    [d EXCEPT !.rows = @ \o << [id |-> d.nextId, message |-> m],
                               [id |-> d.nextId + 1, message |-> m] >>,
              !.nextId = @ + 2]

\* INSERT INTO messages (message) VALUES (%s) (line 48), inside the
\* connection's transaction: the row gets the next AUTO_INCREMENT id.
InsertMessage(d, m) ==
    [d EXCEPT !.rows = Append(@, [id |-> d.nextId, message |-> m]),
              !.nextId = @ + 1]

\* A variant of Rollback: an autocommit connection, on which the insert is
\* kept without the commit.
RollbackKeepsRow(d, t) == t

\* The database when a transaction that reached state t ends without its
\* commit (lines 48-49): the row is gone, the counter stays advanced.
Rollback(d, t) == [d EXCEPT !.nextId = t.nextId]

\* ------------------------------------------------------------ handler runs

Min(S) == CHOOSE x \in S : \A y \in S : x <= y

\* The index of the first call of `plan` that raises, 0 when none does:
\* the call at which the link is lost, or a statement that fails.
FirstRaise(plan, fault, stmtFails) ==
    LET bad == { k \in 1..Len(plan) :
                   \/ plan[k] = fault
                   \/ plan[k] = "execute" /\ stmtFails }
    IN  IF bad = {} THEN 0 ELSE Min(bad)

\* The calls a handler makes: its plan up to and including the first raise.
Made(plan, fault, stmtFails) ==
    LET r == FirstRaise(plan, fault, stmtFails)
    IN  IF r = 0 THEN plan ELSE SubSeq(plan, 1, r)

\* The call that raised, "none" when none did.
Raised(plan, fault, stmtFails) ==
    LET r == FirstRaise(plan, fault, stmtFails)
    IN  IF r = 0 THEN "none" ELSE plan[r]

\* Whether `call` was made and returned normally.
Succeeded(call, plan, fault, stmtFails) ==
    /\ \E k \in 1..Len(Made(plan, fault, stmtFails)) : plan[k] = call
    /\ Raised(plan, fault, stmtFails) # call

\* The database calls of each handler, in source order.
InitPlan == <<"cursor", "execute", "commit", "close">>      \* lines 21-29
HomePlan == <<"cursor", "execute", "close">>                \* lines 38-41
SubmitPlan == <<"cursor", "execute", "commit", "close">>    \* lines 47-50
HealthPlan == <<"cursor", "execute", "close">>              \* lines 56-58

\* Where the link can be lost in each handler.
InitFaults == {"none", "cursor", "execute", "commit"}
HomeFaults == {"none", "cursor", "execute"}
SubmitFaults == {"none", "cursor", "execute", "commit"}
HealthFaults == {"none", "cursor", "execute"}

\* No handler has run yet.
NoResp ==
    [handler |-> "none", fault |-> "none", form |-> << >>, calls |-> << >>,
     raised |-> "none", propagated |-> FALSE, status |-> 0, text |-> "",
     json |-> << >>, page |-> << >>]

\* ----------------------------------------------------------------- init_db

\* A variant of AfterSuccess: no break, the loop goes on as after a failure.
AfterSuccessNoBreak == "except"

\* A variant of AfterFailure: no except clause, the exception leaves init_db
\* and ends the process before app.run.
AfterFailureCrash == "crashed"

\* Where init_db goes after an attempt that succeeded: break (line 31), so
\* the loop and the function end.
AfterSuccess == "returned"

\* Where init_db goes after an attempt that raised: the except clause
\* (lines 32-34).
AfterFailure == "except"

\* Where init_db goes after the sleep of iteration k: the next iteration of
\* `for i in range(retries)`, or past the loop.
AfterSleep(k) == IF k + 1 < retries THEN "init_db" ELSE "returned"

\* One iteration's try block (lines 20-31).
InitAttempt(fault) ==
    /\ pc = "init_db"
    /\ LET stmt == CreateTableFails(db)
           ok == Raised(InitPlan, fault, stmt) = "none"
       IN  /\ db' = IF Succeeded("execute", InitPlan, fault, stmt)
                    THEN CreateTableIfNotExists(db) ELSE db
           /\ resp' = [NoResp EXCEPT
                         !.handler = "init_db",
                         !.fault = fault,
                         !.calls = Made(InitPlan, fault, stmt),
                         !.raised = Raised(InitPlan, fault, stmt)]
           /\ events' = Append(events, IF ok THEN "ok" ELSE "fail")
           /\ pc' = IF ok THEN AfterSuccess ELSE AfterFailure
    /\ UNCHANGED <<i, run>>

\* The except clause after its print: time.sleep(5) (line 34), then the
\* loop's next iteration or its end.
InitSleep ==
    /\ pc = "except"
    /\ events' = Append(events, "sleep")
    /\ pc' = AfterSleep(i)
    /\ i' = i + 1
    /\ UNCHANGED <<db, resp, run>>

\* app.run(host='0.0.0.0', port=5000) after init_db() returned (lines 64-65).
AppRun ==
    /\ pc = "returned"
    /\ pc' = "serving"
    /\ UNCHANGED <<db, i, events, resp, run>>

\* ---------------------------------------------------------------- handlers

\* GET / (lines 36-42).
Home(fault) ==
    /\ pc = "serving"
    /\ LET stmt == TableStatementFails(db)
           raised == Raised(HomePlan, fault, stmt)
       IN  resp' = [NoResp EXCEPT
                      !.handler = "home",
                      !.fault = fault,
                      !.calls = Made(HomePlan, fault, stmt),
                      !.raised = raised,
                      !.propagated = (raised # "none"),
                      !.status = IF raised = "none" THEN 200 ELSE 500,
                      !.page = IF raised = "none"
                               THEN SelectMessages(db) ELSE << >>]
    /\ UNCHANGED <<db, pc, i, events, run>>

\* The database after submit's calls: the insert's row when the commit
\* succeeded, the advanced counter alone when only the insert did.
SubmitEffect(d, m, fault) ==
    LET stmt == TableStatementFails(d)
    IN  IF Succeeded("commit", SubmitPlan, fault, stmt)
        THEN InsertMessage(d, m)
        ELSE IF Succeeded("execute", SubmitPlan, fault, stmt)
        THEN Rollback(d, InsertMessage(d, m))
        ELSE d

\* POST /submit (lines 44-51).
Submit(form, fault) ==
    /\ pc = "serving"
    /\ db.nextId <= MaxId
    /\ LET new_message == FormGet(form, "new_message")
           stmt == TableStatementFails(db)
           raised == Raised(SubmitPlan, fault, stmt)
       IN  /\ db' = SubmitEffect(db, new_message, fault)
           /\ resp' = [NoResp EXCEPT
                         !.handler = "submit",
                         !.fault = fault,
                         !.form = form,
                         !.calls = Made(SubmitPlan, fault, stmt),
                         !.raised = raised,
                         !.propagated = (raised # "none"),
                         !.status = IF raised = "none" THEN 200 ELSE 500,
                         !.json = IF raised = "none"
                                  THEN <<[message |-> new_message]>>
                                  ELSE << >>]
    /\ UNCHANGED <<pc, i, events, run>>

\* A variant of HealthReturn: the except clause answers like the try block.
HealthReturnAlwaysHealthy(raised) == [text |-> "healthy", status |-> 200]

\* health's two returns (lines 59 and 61).
HealthReturn(raised) ==
    IF raised = "none"
    THEN [text |-> "healthy", status |-> 200]
    ELSE [text |-> "unhealthy", status |-> 500]

\* GET /health (lines 53-61).
Health(fault) ==
    /\ pc = "serving"
    /\ LET stmt == SelectOneFails(db)
           raised == Raised(HealthPlan, fault, stmt)
           ret == HealthReturn(raised)
       IN  resp' = [NoResp EXCEPT
                      !.handler = "health",
                      !.fault = fault,
                      !.calls = Made(HealthPlan, fault, stmt),
                      !.raised = raised,
                      !.status = ret.status,
                      !.text = ret.text]
    /\ UNCHANGED <<db, pc, i, events, run>>

\* The process ends and the program is started again (lines 63-65) against
\* the database as it is.
Restart ==
    /\ run < MaxRuns
    /\ run' = run + 1
    /\ pc' = "init_db"
    /\ i' = 0
    /\ events' = << >>
    /\ resp' = NoResp
    /\ UNCHANGED db

\* ----------------------------------------------------------- specification

Init ==
    /\ db = EmptyDb
    /\ pc = "init_db"
    /\ i = 0
    /\ events = << >>
    /\ resp = NoResp
    /\ run = 1

Next ==
    \/ \E fault \in InitFaults : InitAttempt(fault)
    \/ InitSleep
    \/ AppRun
    \/ \E fault \in HomeFaults : Home(fault)
    \/ \E form \in Forms, fault \in SubmitFaults : Submit(form, fault)
    \/ \E fault \in HealthFaults : Health(fault)
    \/ Restart

Spec == Init /\ [][Next]_vars

\* init_db and the call of app.run are sequential code whose calls return
\* or raise: an enabled step of startup is eventually taken.
FairSpec ==
    /\ Spec
    /\ WF_vars(\E fault \in InitFaults : InitAttempt(fault))
    /\ WF_vars(InitSleep)
    /\ WF_vars(AppRun)

TypeOK ==
    /\ db.exists \in BOOLEAN
    /\ db.nextId \in 1..(MaxId + 1)
    /\ pc \in {"init_db", "except", "returned", "serving"}
    /\ i \in 0..retries
    /\ run \in 1..MaxRuns

\* ------------------------------------------------------------------ claims

\* How many times m occurs in the sequence s.
Count(s, m) == Cardinality({ k \in 1..Len(s) : s[k] = m })

Last(s) == s[Len(s)]

\* The attempts and the sleeps of this run of init_db.
Attempts(ev) == Cardinality({ k \in 1..Len(ev) : ev[k] \in {"ok", "fail"} })
Sleeps(ev) == Cardinality({ k \in 1..Len(ev) : ev[k] = "sleep" })

\* init_db has ended; it ended with the table created.
InitTerminated == pc \in {"returned", "serving"}
InitSucceeded == events # << >> /\ Last(events) = "ok"

\* The step is one attempt of init_db.
IsInitAttempt == pc = "init_db" /\ resp'.handler = "init_db"

\* The handler of r acquired a cursor; it closed one; it made no call twice.
Acquired(r) ==
    /\ \E k \in 1..Len(r.calls) : r.calls[k] = "cursor"
    /\ r.raised # "cursor"
Closed(r) == \E k \in 1..Len(r.calls) : r.calls[k] = "close"
NoRetry(r) ==
    \A j, k \in 1..Len(r.calls) : r.calls[j] = r.calls[k] => j = k

\* C1: a successful POST /submit of s makes the message list of GET / hold s
\* exactly once more than before the submit and every other message as often
\* as before; a successful GET / returns exactly the messages of the table.
C1_SubmitAddsExactlyOne ==
    [][ /\ (resp'.handler = "submit" /\ resp'.status = 200) =>
              \A m \in MessageValues :
                  Count(SelectMessages(db'), m) =
                      Count(SelectMessages(db), m)
                      + (IF m = resp'.json[1].message THEN 1 ELSE 0)
        /\ (resp'.handler = "home" /\ resp'.status = 200) =>
              resp'.page = SelectMessages(db')
      ]_vars

\* Empty table, submit 'hello', submit 'world': GET / shows exactly the two.
C1_Witness ==
    /\ resp.handler = "home"
    /\ resp.status = 200
    /\ resp.page = <<Str("hello"), Str("world")>>

\* C2: GET /health never propagates an exception; it answers "healthy", 200
\* exactly when acquiring the cursor and executing SELECT 1 both succeeded,
\* "unhealthy", 500 whenever a call raised, and nothing else.
C2_HealthAlwaysAnswers ==
    resp.handler = "health" =>
        /\ ~resp.propagated
        /\ (resp.text = "healthy" /\ resp.status = 200)
               <=> (Acquired(resp) /\ resp.raised # "execute")
        /\ resp.raised # "none" =>
               (resp.text = "unhealthy" /\ resp.status = 500)
        /\ <<resp.text, resp.status>> \in
               { <<"healthy", 200>>, <<"unhealthy", 500>> }

\* The connection is severed at SELECT 1.
C2_Witness ==
    /\ resp.handler = "health"
    /\ resp.raised = "execute"
    /\ resp.status = 500

\* C3: a run of init_db makes at least 1 and at most 5 attempts, none after
\* the first that succeeds, and ends after a failure only at the 5th.
C3_AttemptsBounded ==
    /\ Attempts(events) <= 5
    /\ \A k \in 1..Len(events) : events[k] = "ok" => k = Len(events)
    /\ InitTerminated =>
          /\ Attempts(events) >= 1
          /\ ~InitSucceeded => Attempts(events) = 5

\* init_db succeeded at its 5th attempt.
C3_Witness ==
    /\ InitTerminated
    /\ InitSucceeded
    /\ Attempts(events) = 5

\* C4: the server listens only once init_db has ended, by a success or by 5
\* failures, and every start of the process leads to the server listening.
C4_StartupAlwaysServes ==
    /\ [](pc = "serving" =>
            (InitSucceeded \/ (Attempts(events) = 5 /\ ~InitSucceeded)))
    /\ (pc = "init_db") ~> (pc = "serving")

\* The server handles a request while the table messages does not exist.
C4_Witness ==
    /\ pc = "serving"
    /\ ~db.exists
    /\ ~InitSucceeded
    /\ resp.handler = "home"
    /\ resp.status = 500

\* C5: every sleep follows a failed attempt and is followed by another
\* attempt: k-1 sleeps before a success at attempt k, 4 sleeps when all 5
\* attempts fail.
C5_SleepsOnlyBetweenAttempts ==
    /\ \A k \in 1..Len(events) :
          events[k] = "sleep" => (k > 1 /\ events[k - 1] = "fail")
    /\ InitTerminated =>
          /\ \A k \in 1..Len(events) :
                events[k] = "sleep" =>
                    (k < Len(events) /\ events[k + 1] \in {"ok", "fail"})
          /\ InitSucceeded => Sleeps(events) = Attempts(events) - 1
          /\ ~InitSucceeded => Sleeps(events) = 4

\* C6: an attempt of init_db on a reachable database that holds the table
\* succeeds, ends init_db, and leaves the table and its rows as they were.
C6_InitIdempotent ==
    [][ (IsInitAttempt /\ db.exists /\ resp'.fault = "none") =>
            /\ resp'.raised = "none"
            /\ events' = Append(events, "ok")
            /\ pc' = "returned"
            /\ db' = db
      ]_vars

\* The second start of the process found the table with a row in it and
\* init_db succeeded at its first attempt.
C6_Witness ==
    /\ run = 2
    /\ events = <<"ok">>
    /\ Len(db.rows) >= 1

\* C7: a POST /submit without the field new_message, the database available,
\* inserts one row whose message is null and answers 200 {"message": null};
\* the message of any 200 answer is the message of the one row inserted.
C7_AbsentFieldInsertsNull ==
    [][ resp'.handler = "submit" =>
            /\ ( /\ "new_message" \notin DOMAIN resp'.form
                 /\ resp'.fault = "none"
                 /\ db.exists ) =>
                   /\ resp'.status = 200
                   /\ resp'.json = << [message |-> << >>] >>
            /\ resp'.status = 200 =>
                   /\ Len(db'.rows) = Len(db.rows) + 1
                   /\ SubSeq(db'.rows, 1, Len(db.rows)) = db.rows
                   /\ Last(db'.rows).message = resp'.json[1].message
      ]_vars

\* A submit without the field was answered 200 and stored a null message.
C7_Witness ==
    /\ resp.handler = "submit"
    /\ "new_message" \notin DOMAIN resp.form
    /\ resp.status = 200
    /\ Last(db.rows).message = << >>

\* C8: the table, once created, stays; its rows keep their place, id and
\* message; GET / and GET /health change nothing; only submit adds a row, one
\* at a time, with the id the counter held, which is above every stored id;
\* the counter never goes back and advances with every executed insert.
C8_AppendOnlyUniqueIds ==
    [][ /\ db.exists => db'.exists
        /\ Len(db'.rows) >= Len(db.rows)
        /\ \A k \in 1..Len(db.rows) : db'.rows[k] = db.rows[k]
        /\ resp'.handler \in {"home", "health"} => db' = db
        /\ Len(db'.rows) # Len(db.rows) =>
              /\ resp'.handler = "submit"
              /\ Len(db'.rows) = Len(db.rows) + 1
              /\ Last(db'.rows).id = db.nextId
        /\ \A k \in 1..Len(db'.rows) : db'.rows[k].id < db'.nextId
        /\ \A j, k \in 1..Len(db'.rows) :
              j < k => db'.rows[j].id < db'.rows[k].id
        /\ db'.nextId >= db.nextId
      ]_vars

\* Two rows, the second with id 3 (the insert of id 2 was rolled back),
\* after a restart of the process and a health check.
C8_Witness ==
    /\ run = 2
    /\ resp.handler = "health"
    /\ Len(db.rows) = 2
    /\ db.rows[2].id = 3

\* C9: a handler or initializer attempt that acquired a cursor has closed it
\* when it ends, also when the statement or the commit raised.
C9_CursorAlwaysClosed == Acquired(resp) => Closed(resp)

\* C10: GET / and POST /submit with the link lost or the table missing end
\* in a propagated error, status 500, every call made once; a submit that
\* ends in an error leaves the rows as they were, and rows change only when
\* both the insert and the commit returned.
C10_ErrorsPropagateNothingStored ==
    [][ resp'.handler \in {"home", "submit"} =>
            /\ (resp'.fault # "none" \/ ~db.exists) =>
                   /\ resp'.status = 500
                   /\ resp'.propagated
                   /\ resp'.raised # "none"
            /\ NoRetry(resp')
            /\ (resp'.handler = "submit" /\ resp'.status # 200) =>
                   /\ db'.rows = db.rows
                   /\ db'.exists = db.exists
            /\ db'.rows # db.rows =>
                   /\ Acquired(resp')
                   /\ resp'.raised = "none"
                   /\ \E k \in 1..Len(resp'.calls) : resp'.calls[k] = "commit"
      ]_vars

\* A submit whose commit raised: answered 500, the insert's id used up and
\* no row stored.
C10_Witness ==
    /\ resp.handler = "submit"
    /\ resp.raised = "commit"
    /\ resp.status = 500
    /\ db.nextId > Len(db.rows) + 1
====
